---- MODULE Spec2Model ----
(***************************************************************************)
(* Per-key token bucket rate limiter (app/rate_limiter.py).                *)
(*                                                                         *)
(* One TokenBucket instance with its policy fields and its key -> bucket   *)
(* dictionary, called from request threads that run the decorator's        *)
(* wrapper (allow_request, then on denial get_token_info and the 429       *)
(* response) or get_token_info alone.  The code takes no lock, so a thread *)
(* can be preempted between any two statements: every statement that reads *)
(* or writes self.buckets or reads the clock is a step of its own, taken    *)
(* together with the statements after it that touch only the thread's own  *)
(* locals.                                                                 *)
(*                                                                         *)
(* The clock is read in whole seconds.  Token counts are Python floats in  *)
(* the code; here they are exact rationals, held as numerators over the    *)
(* common denominator Den = refill_time, so that                           *)
(* (elapsed / refill_time) * refill_rate is elapsed * refill_rate over     *)
(* Den.  Floating point rounding is not modelled.                          *)
(*                                                                         *)
(* A second part models the decorator factory: rate_limit(...) with its    *)
(* two argument forms and parse_rate_limit_string (strings as sequences of *)
(* characters), giving each decorated endpoint its own TokenBucket and     *)
(* dict, and the wrapper run as one undivided call per request.            *)
(***************************************************************************)
EXTENDS Integers, FiniteSets, Sequences, TLC

\* ---------------------------------------------------------------- bounds
MaxCapacity == 2
MaxRate == 2
MaxPeriod == 2
MaxTime == 2
MaxCalls == 3

Keys == {"A", "B"}
Threads == {"t1", "t2"}

VARIABLES
    capacity,      \* self.capacity
    refill_rate,   \* self.refill_rate
    refill_time,   \* self.refill_time
    buckets,       \* self.buckets: key -> (tokens, last_time), or NoBucket
    clock,         \* what datetime.now() returns, in seconds
    th,            \* per thread: control point and the locals of its frames
    ncalls,        \* calls started so far
    watch,         \* the key whose history is recorded (any key; never changes)
    hist,          \* history of the calls made for key watch (observation only)
    lims,          \* per decorated endpoint: what rate_limit(...) gave it
    dicts,         \* the dict objects made by TokenBucket.__init__, by identity
    resp,          \* per decorated endpoint: how its wrapper answered last
    acted          \* the endpoints whose wrapper ran in the last step

vars == <<capacity, refill_rate, refill_time, buckets, clock, th, ncalls,
          watch, hist, lims, dicts, resp, acted>>

\* ------------------------------------------------------------ arithmetic
Min(a, b) == IF a <= b THEN a ELSE b

\* One token, as a numerator: tokens are counted in units of 1/Den.
Den == refill_time

\* self.capacity in the same units.
CapacityTokens == capacity * Den

\* elapsed = (now - last_time).total_seconds()
Elapsed(now, last_time) == now - last_time

\* faulty variant: only whole refill periods add tokens
AddedTokensWhole(elapsed) == (elapsed \div refill_time) * refill_rate * Den

\* added_tokens = (elapsed / self.refill_time) * self.refill_rate
AddedTokens(elapsed) == elapsed * refill_rate

\* faulty variant: the cap at capacity is forgotten
RefilledNoCap(tokens, elapsed) == tokens + AddedTokens(elapsed)

\* faulty variant (BrokenTokenBucket2): no refill while less than one token
RefilledSkipEmpty(tokens, elapsed) ==
    IF tokens < Den THEN tokens
    ELSE Min(CapacityTokens, tokens + AddedTokens(elapsed))

\* tokens = min(self.capacity, tokens + added_tokens)
Refilled(tokens, elapsed) == Min(CapacityTokens, tokens + AddedTokens(elapsed))

\* faulty variant: the timestamp is not updated
RefillEntryStale(tokens, last_time, now) ==
    [tokens |-> tokens, last_time |-> last_time]

\* the tuple stored by self.buckets[key] = (tokens, now)
RefillEntry(tokens, last_time, now) == [tokens |-> tokens, last_time |-> now]

\* faulty variant: exactly one token is not enough
HasTokenStrict(tokens) == tokens > Den

\* if tokens >= 1
HasToken(tokens) == tokens >= Den

\* faulty variant: an admission takes no token
ConsumedNone(tokens) == tokens

\* tokens - 1
Consumed(tokens) == tokens - Den

\* int(x) of a quotient n/d with d > 0: truncation toward zero
IntTrunc(n, d) == IF n >= 0 THEN n \div d ELSE -((-n) \div d)

\* seconds_until_next_token = bucket.refill_time / bucket.refill_rate
\* retry_after = int(seconds_until_next_token)
RetryAfter == IntTrunc(refill_time, refill_rate)

\* ceil(n / d) for n >= 0, d > 0
Ceil(n, d) == (n + d - 1) \div d

\* ------------------------------------------------------------ dictionary
NoBucket == [tokens |-> -1, last_time |-> -1]

\* key in self.buckets
HasKey(b, k) == b[k] # NoBucket

\* faulty variant: one entry shared by all keys
StoreAll(b, k, v) == [x \in Keys |-> v]

\* self.buckets[key] = v
Store(b, k, v) == [b EXCEPT ![k] = v]

\* (self.capacity, datetime.now())
FreshBucket(now) == [tokens |-> CapacityTokens, last_time |-> now]

\* --------------------------------------------------------------- threads
\* pc: the statement the thread is at (a = allow_request, r = _refill,
\* g = get_token_info, w = wrapper, by source line); op: what was called;
\* frame: who called _refill; r_*: locals of _refill; a_*: locals of
\* allow_request; result: what allow_request returned; status, retry_after,
\* remaining: the wrapper's response; info_tokens: get_token_info's tokens
IdleThread ==
    [pc |-> "idle", op |-> "none", key |-> "none", frame |-> "none",
     r_tokens |-> -1, r_last |-> -1, r_now |-> -1,
     a_tokens |-> -1, a_last |-> -1,
     result |-> "none", status |-> 0, retry_after |-> -1, remaining |-> -1,
     info_tokens |-> -1]

\* nadm: requests admitted; creations: fresh buckets stored; created: when the
\* first one was stored; overlap: two calls for the key have run at the same
\* time.  While they have not: lastRej, lastRetry: when the last request, if
\* rejected, was answered, and the retry_after it was given; atok, atime: the
\* bucket as the last creation or consumption left it; mtime: an instant an
\* observer marked (-1: none), madm: requests admitted since that instant
NoHistory ==
    [nadm |-> 0, creations |-> 0, created |-> -1, overlap |-> FALSE,
     lastRej |-> -1, lastRetry |-> -1, atok |-> -1, atime |-> -1,
     mtime |-> -1, madm |-> 0]

\* the admission count is kept up to one past what the claims look at
Bump(n) == Min(n + 1, MaxCapacity + 2)

\* a history of overlapping calls keeps the counts only
Counts(h) == IF h.overlap
             THEN [h EXCEPT !.lastRej = -1, !.lastRetry = -1,
                            !.atok = -1, !.atime = -1]
             ELSE h

\* hist with h as the new history, if the step was for the watched key
Record(k, h) == IF k = watch THEN Counts(h) ELSE hist

Busy(k) == \E u \in Threads : th[u].pc # "idle" /\ th[u].key = k

AllIdle == \A t \in Threads : th[t].pc = "idle"

\* ---------------------------------------------------- decorated endpoints
\* the functions decorated with @rate_limit(...): each decoration calls
\* rate_limit once, at import time
Endpoints == {"e1", "e2"}

\* an optional argument: None, or a value
None == [some |-> FALSE, v |-> 0]

Opt(v) == [some |-> TRUE, v |-> v]

\* the first argument: a str (the sequence of its characters) or an int
StrLimit(s) == [kind |-> "str", str |-> s, n |-> 0]

IntLimit(n) == [kind |-> "int", str |-> <<>>, n |-> n]

NoArgs == [limit |-> [kind |-> "none", str |-> <<>>, n |-> 0],
           refill_rate |-> None, refill_time |-> None]

\* state: "none" before rate_limit is called, "built" when it returned a
\* decorator around a TokenBucket, "error" when it raised ValueError; args:
\* what it was called with; dict: the identity of the instance's self.buckets
NoLimiter ==
    [state |-> "none", args |-> NoArgs,
     capacity |-> 0, refill_rate |-> 0, refill_time |-> 0, dict |-> "none"]

\* a dict object that no TokenBucket.__init__ has made yet
NoDict == [made |-> FALSE, items |-> [k \in Keys |-> NoBucket]]

\* {}
EmptyDict == [made |-> TRUE, items |-> [k \in Keys |-> NoBucket]]

\* allowed: what allow_request returned ("none" when it was not called);
\* status: "200" the handler's answer, "429" the HTTPException, "ValueError"
\* no request object; handler_runs: how many times func was invoked
NoResponse ==
    [key |-> "none", has_request |-> FALSE, allowed |-> "none",
     status |-> "none", handler_runs |-> 0, retry_after |-> -1,
     remaining |-> -1]

\* TokenBucket.__init__ with a valid policy: the three fields, an empty dict
Init ==
    /\ capacity \in 1..MaxCapacity
    /\ refill_rate \in 1..MaxRate
    /\ refill_time \in 1..MaxPeriod
    /\ buckets = [k \in Keys |-> NoBucket]
    /\ clock = 0
    /\ th = [t \in Threads |-> IdleThread]
    /\ ncalls = 0
    /\ watch \in Keys
    /\ hist = NoHistory
    /\ lims = [e \in Endpoints |-> NoLimiter]
    /\ dicts = [e \in Endpoints |-> NoDict]
    /\ resp = [e \in Endpoints |-> NoResponse]
    /\ acted = {}

\* what no step of a call on the TokenBucket instance changes
Policy == <<capacity, refill_rate, refill_time, watch, lims, dicts, resp, acted>>

\* time passes
Tick ==
    /\ clock < MaxTime
    /\ clock' = clock + 1
    /\ UNCHANGED <<Policy, buckets, th, ncalls, hist>>

\* a call starts: counted, and noted if it overlaps another for the key
Started(k) ==
    /\ ncalls < MaxCalls
    /\ ncalls' = ncalls + 1
    /\ hist' = Record(k, [hist EXCEPT !.overlap = @ \/ Busy(k)])

\* a request enters the wrapper: user_key = get_key(request), then
\* bucket.allow_request(user_key): if key not in self.buckets
BeginRequest(t) ==
    /\ th[t].pc = "idle"
    /\ \E k \in Keys :
        /\ th' = [th EXCEPT ![t] = [IdleThread EXCEPT
                    !.pc = IF HasKey(buckets, k) THEN "r15" ELSE "a24",
                    !.op = "request", !.key = k, !.frame = "allow"]]
        /\ Started(k)
    /\ UNCHANGED <<Policy, buckets, clock>>

\* get_token_info: if key not in self.buckets: return self.capacity, now()
\* else self._refill(key)
InfoCheck(t, k) ==
    IF HasKey(buckets, k)
    THEN [th[t] EXCEPT !.pc = "r15", !.key = k, !.frame = "info"]
    ELSE [th[t] EXCEPT !.pc = "done", !.key = k, !.frame = "info",
                       !.info_tokens = CapacityTokens]

\* a caller asks bucket.get_token_info(key) on its own
BeginInfo(t) ==
    /\ th[t].pc = "idle"
    /\ \E k \in Keys :
        /\ th' = [th EXCEPT ![t] = [InfoCheck(t, k) EXCEPT !.op = "info"]]
        /\ Started(k)
    /\ UNCHANGED <<Policy, buckets, clock>>

\* allow_request: self.buckets[key] = (self.capacity, datetime.now())
AllowCreate(t) ==
    /\ th[t].pc = "a24"
    /\ buckets' = Store(buckets, th[t].key, FreshBucket(clock))
    /\ th' = [th EXCEPT ![t].pc = "r15"]
    /\ hist' = Record(th[t].key, [hist EXCEPT
                    !.creations = @ + 1,
                    !.created = IF @ = -1 THEN clock ELSE @,
                    !.atok = CapacityTokens, !.atime = clock])
    /\ UNCHANGED <<Policy, clock, ncalls>>

\* _refill: tokens, last_time = self.buckets[key]
RefillRead(t) ==
    /\ th[t].pc = "r15"
    /\ th' = [th EXCEPT ![t].pc = "r16",
                        ![t].r_tokens = buckets[th[t].key].tokens,
                        ![t].r_last = buckets[th[t].key].last_time]
    /\ UNCHANGED <<Policy, buckets, clock, ncalls, hist>>

\* _refill: now = datetime.now(); elapsed; added_tokens; tokens = min(...)
RefillCompute(t) ==
    /\ th[t].pc = "r16"
    /\ th' = [th EXCEPT ![t].pc = "r20",
                        ![t].r_now = clock,
                        ![t].r_tokens =
                            Refilled(th[t].r_tokens, Elapsed(clock, th[t].r_last))]
    /\ UNCHANGED <<Policy, buckets, clock, ncalls, hist>>

\* _refill: self.buckets[key] = (tokens, now), and return to the caller
RefillStore(t) ==
    /\ th[t].pc = "r20"
    /\ buckets' = Store(buckets, th[t].key,
                        RefillEntry(th[t].r_tokens, th[t].r_last, th[t].r_now))
    /\ th' = [th EXCEPT ![t].pc = IF th[t].frame = "allow" THEN "a27" ELSE "g40",
                        ![t].r_last = -1]
    /\ UNCHANGED <<Policy, clock, ncalls, hist>>

\* allow_request: tokens, last_time = self.buckets[key]; if tokens >= 1
AllowRead(t) ==
    /\ th[t].pc = "a27"
    /\ HasToken(buckets[th[t].key].tokens)
    /\ th' = [th EXCEPT ![t].pc = "a30",
                        ![t].a_tokens = buckets[th[t].key].tokens,
                        ![t].a_last = buckets[th[t].key].last_time]
    /\ UNCHANGED <<Policy, buckets, clock, ncalls, hist>>

\* allow_request: tokens, last_time = self.buckets[key]; tokens < 1:
\* return False
AllowDeny(t) ==
    /\ th[t].pc = "a27"
    /\ ~HasToken(buckets[th[t].key].tokens)
    /\ th' = [th EXCEPT ![t].pc = "w138", ![t].result = "rejected"]
    /\ UNCHANGED <<Policy, buckets, clock, ncalls, hist>>

\* allow_request: self.buckets[key] = (tokens - 1, last_time); return True
\* wrapper: return func(*args, **kwargs)
AllowAdmit(t) ==
    /\ th[t].pc = "a30"
    /\ buckets' = Store(buckets, th[t].key,
                        [tokens |-> Consumed(th[t].a_tokens),
                         last_time |-> th[t].a_last])
    /\ th' = [th EXCEPT ![t].pc = "done", ![t].result = "admitted",
                        ![t].status = 200,
                        ![t].a_tokens = -1, ![t].a_last = -1]
    /\ hist' = Record(th[t].key, [hist EXCEPT
                    !.nadm = Bump(@),
                    !.madm = IF hist.mtime >= 0 THEN Bump(@) ELSE @,
                    !.atok = Consumed(th[t].a_tokens),
                    !.atime = th[t].a_last])
    /\ UNCHANGED <<Policy, clock, ncalls>>

\* wrapper: else: tokens, _ = bucket.get_token_info(user_key)
WrapperElse(t) ==
    /\ th[t].pc = "w138"
    /\ th' = [th EXCEPT ![t] = InfoCheck(t, th[t].key)]
    /\ UNCHANGED <<Policy, buckets, clock, ncalls, hist>>

\* get_token_info: return self.buckets[key], to a direct caller
InfoReturn(t) ==
    /\ th[t].pc = "g40"
    /\ th[t].op = "info"
    /\ th' = [th EXCEPT ![t].pc = "done",
                        ![t].info_tokens = buckets[th[t].key].tokens]
    /\ UNCHANGED <<Policy, buckets, clock, ncalls, hist>>

\* get_token_info: return self.buckets[key], to the wrapper, which computes
\* retry_after and the headers and raises HTTPException(status_code=429)
WrapperReject(t) ==
    /\ th[t].pc = "g40"
    /\ th[t].op = "request"
    /\ th' = [th EXCEPT ![t].pc = "done", ![t].status = 429,
                        ![t].info_tokens = buckets[th[t].key].tokens,
                        ![t].retry_after = RetryAfter, ![t].remaining = 0]
    /\ UNCHANGED <<Policy, buckets, clock, ncalls, hist>>

\* the call is over: its frames are gone, the caller has the answer
Return(t) ==
    /\ th[t].pc = "done"
    /\ th' = [th EXCEPT ![t] = IdleThread]
    /\ hist' = IF th[t].op = "request"
               THEN Record(th[t].key, [hist EXCEPT
                        !.lastRej = IF th[t].status = 429 THEN clock ELSE -1,
                        !.lastRetry = th[t].retry_after])
               ELSE hist
    /\ UNCHANGED <<Policy, buckets, clock, ncalls>>

Step(t) ==
    \/ AllowCreate(t)
    \/ RefillRead(t)
    \/ RefillCompute(t)
    \/ RefillStore(t)
    \/ AllowRead(t)
    \/ AllowDeny(t)
    \/ AllowAdmit(t)
    \/ WrapperElse(t)
    \/ InfoReturn(t)
    \/ WrapperReject(t)
    \/ Return(t)

\* request threads preempt each other between any two statements
Next ==
    \/ Tick
    \/ \E t \in Threads : BeginRequest(t) \/ BeginInfo(t) \/ Step(t)

Spec == Init /\ [][Next]_vars

\* one call at a time: a call starts only when no other call is in progress
NextSeq ==
    \/ Tick
    \/ \E t \in Threads : (AllIdle /\ BeginRequest(t)) \/ (AllIdle /\ BeginInfo(t))
    \/ \E t \in Threads : Step(t)

SeqSpec == Init /\ [][NextSeq]_vars

\* one call at a time, every pending step eventually taken: a call that has
\* started runs to its end, and time passes
FairSeqSpec == SeqSpec /\ WF_vars(NextSeq)

\* datetime.now() is the wall clock: an adjustment sets it back
ClockBack ==
    /\ clock > 0
    /\ clock' = clock - 1
    /\ UNCHANGED <<Policy, buckets, th, ncalls, hist>>

SkewNext ==
    \/ ClockBack
    \/ NextSeq

\* one call at a time, on a clock that can be set back
SkewSpec == Init /\ [][SkewNext]_vars

\* between two calls, an observer marks the instant from which the admitted
\* requests of the watched key are counted
Mark ==
    /\ AllIdle
    /\ hist.mtime = -1
    /\ hist' = [hist EXCEPT !.mtime = clock]
    /\ UNCHANGED <<Policy, buckets, clock, th, ncalls>>

MarkNext ==
    \/ Mark
    \/ NextSeq

\* one call at a time, the admissions counted from any instant
MarkSpec == Init /\ [][MarkNext]_vars

\* ------------------------------------------------- parse_rate_limit_string
Digits == <<"0", "1", "2", "3", "4", "5", "6", "7", "8", "9">>

IsDigit(c) == \E i \in DOMAIN Digits : Digits[i] = c

DigitVal(c) == (CHOOSE i \in DOMAIN Digits : Digits[i] = c) - 1

\* str(n) for n >= 0
RECURSIVE Decimal(_)
Decimal(n) ==
    IF n < 10 THEN <<Digits[n + 1]>>
    ELSE Decimal(n \div 10) \o <<Digits[(n % 10) + 1]>>

\* '/' in rate_string
HasSlash(s) == \E i \in DOMAIN s : s[i] = "/"

\* rate_string.split('/')
RECURSIVE Split(_)
Split(s) ==
    IF ~HasSlash(s) THEN <<s>>
    ELSE LET i == CHOOSE i \in DOMAIN s :
                      s[i] = "/" /\ \A j \in 1..(i - 1) : s[j] # "/"
         IN <<SubSeq(s, 1, i - 1)>> \o Split(SubSeq(s, i + 1, Len(s)))

\* the strings int() accepts: an optional sign, then decimal digits
IsIntLiteral(s) ==
    LET body == IF s # <<>> /\ s[1] \in {"-", "+"} THEN Tail(s) ELSE s
    IN body # <<>> /\ \A i \in DOMAIN body : IsDigit(body[i])

RECURSIVE DigitsValue(_)
DigitsValue(s) ==
    IF s = <<>> THEN 0
    ELSE 10 * DigitsValue(SubSeq(s, 1, Len(s) - 1)) + DigitVal(s[Len(s)])

\* int(requests)
IntOf(s) ==
    IF s[1] = "-" THEN -DigitsValue(Tail(s))
    ELSE IF s[1] = "+" THEN DigitsValue(Tail(s))
    ELSE DigitsValue(s)

Second == <<"s", "e", "c", "o", "n", "d">>

Minute == <<"m", "i", "n", "u", "t", "e">>

Hour == <<"h", "o", "u", "r">>

Day == <<"d", "a", "y">>

\* a period name that period_map does not have
Week == <<"w", "e", "e", "k">>

\* the keys of period_map
PeriodNames == {Second, Minute, Hour, Day}

\* period_map[period]
PeriodSeconds(w) ==
    CASE w = Second -> 1
      [] w = Minute -> 60
      [] w = Hour -> 3600
      [] w = Day -> 86400

\* parse_rate_limit_string raised ValueError
ParseFailed == [ok |-> FALSE, capacity |-> 0, refill_rate |-> 0, refill_time |-> 0]

\* faulty variant: "N/period" read as one token per period
ParseRateLimitStringOnePer(s) ==
    IF ~HasSlash(s) THEN ParseFailed
    ELSE LET parts == Split(s)
         IN IF Len(parts) # 2 THEN ParseFailed
            ELSE IF ~IsIntLiteral(parts[1]) THEN ParseFailed
            ELSE IF parts[2] \notin PeriodNames THEN ParseFailed
            ELSE [ok |-> TRUE,
                  capacity |-> IntOf(parts[1]),
                  refill_rate |-> 1,
                  refill_time |-> PeriodSeconds(parts[2])]

\* parse_rate_limit_string(rate_string): ValueError when there is no '/',
\* when the split does not give two parts, when int() rejects the first or
\* period_map lacks the second; else capacity = refill_rate = requests and
\* refill_time = period_map[period]
ParseRateLimitString(s) ==
    IF ~HasSlash(s) THEN ParseFailed
    ELSE LET parts == Split(s)
         IN IF Len(parts) # 2 THEN ParseFailed
            ELSE IF ~IsIntLiteral(parts[1]) THEN ParseFailed
            ELSE IF parts[2] \notin PeriodNames THEN ParseFailed
            ELSE [ok |-> TRUE,
                  capacity |-> IntOf(parts[1]),
                  refill_rate |-> IntOf(parts[1]),
                  refill_time |-> PeriodSeconds(parts[2])]

\* -------------------------------------------------------------- rate_limit
\* faulty variant: an argument counts as given only when it is truthy
GivenTruthy(opt) == opt.some /\ opt.v # 0

\* opt is not None
Given(opt) == opt.some

\* faulty variant: one dict object shared by all instances
SharedDict(e) == "e1"

\* self.buckets = {}: a new dict object, named after the endpoint whose
\* TokenBucket holds it
NewDict(e) == e

\* rate_limit raised ValueError: no TokenBucket was made
ConfigError(a) == [NoLimiter EXCEPT !.state = "error", !.args = a]

\* bucket = TokenBucket(capacity, refill_rate, refill_time)
Built(e, a, c, r, t) ==
    [state |-> "built", args |-> a,
     capacity |-> c, refill_rate |-> r, refill_time |-> t, dict |-> NewDict(e)]

\* rate_limit(limit, refill_rate, refill_time) for endpoint e
RateLimit(e, a) ==
    IF a.limit.kind = "str"
    THEN IF Given(a.refill_rate) \/ Given(a.refill_time)
         THEN ConfigError(a)
         ELSE LET p == ParseRateLimitString(a.limit.str)
              IN IF p.ok
                 THEN Built(e, a, p.capacity, p.refill_rate, p.refill_time)
                 ELSE ConfigError(a)
    ELSE IF ~Given(a.refill_rate) \/ ~Given(a.refill_time)
         THEN ConfigError(a)
         ELSE Built(e, a, a.limit.n, a.refill_rate.v, a.refill_time.v)

\* the dict objects once limiter L exists
Allocated(d, L) ==
    IF L.state = "built" THEN [d EXCEPT ![L.dict] = EmptyDict] ELSE d

\* "<n>/<period>"
Shorthand(n, w) == Decimal(n) \o <<"/">> \o w

\* the strings tried as limit: shorthand with a known or an unknown period
\* and any count from 0, and malformed ones (no '/', a negative count, two
\* '/', a count that is no number)
RateStrings ==
    {Shorthand(n, w) : n \in 0..MaxCapacity, w \in PeriodNames \cup {Week}}
        \cup {Decimal(MaxCapacity),
              <<"-">> \o Shorthand(1, Second),
              Shorthand(1, Shorthand(1, Second)),
              <<"x", "/">> \o Second}

\* the argument lists tried: limit a string or an int from 0, refill_rate and
\* refill_time None or an int from 0
ArgInputs ==
    [limit : {StrLimit(s) : s \in RateStrings}
                 \cup {IntLimit(n) : n \in 0..MaxCapacity},
     refill_rate : {None} \cup {Opt(v) : v \in 0..MaxRate},
     refill_time : {None} \cup {Opt(v) : v \in 0..MaxPeriod}]

\* the thread-level limiter is not used at this level: it stays as made
Unused == <<capacity, refill_rate, refill_time, watch, buckets, th, hist>>

\* @rate_limit(...) is evaluated for endpoint e
Construct(e) ==
    /\ lims[e].state = "none"
    /\ \E a \in ArgInputs :
        /\ lims' = [lims EXCEPT ![e] = RateLimit(e, a)]
        /\ dicts' = Allocated(dicts, RateLimit(e, a))
    /\ acted' = {}
    /\ UNCHANGED <<Unused, clock, ncalls, resp>>

\* nothing is decorated yet
ConfigInit ==
    /\ Init
    /\ capacity = 1 /\ refill_rate = 1 /\ refill_time = 1
    /\ watch = "A"

ConfigNext == \E e \in Endpoints : Construct(e)

\* the module is imported: the decorations are evaluated, in any order
ConfigSpec == ConfigInit /\ [][ConfigNext]_vars

\* --------------------------------------------------- one call, undivided
\* The wrapper of an endpoint whose limiter is L, run from its first
\* statement to its last with no other call in between; items is the
\* contents of L's self.buckets, with tokens as numerators over L.refill_time

\* _refill on a stored entry
RefillOf(L, entry, now) ==
    [tokens |-> Min(L.capacity * L.refill_time,
                    entry.tokens + (now - entry.last_time) * L.refill_rate),
     last_time |-> now]

\* allow_request(key): what it returns and what it leaves in self.buckets
AllowRequestOf(L, items, k, now) ==
    LET created == IF items[k] = NoBucket
                   THEN [items EXCEPT ![k] =
                            [tokens |-> L.capacity * L.refill_time,
                             last_time |-> now]]
                   ELSE items
        refilled == RefillOf(L, created[k], now)
    IN IF refilled.tokens >= L.refill_time
       THEN [allowed |-> TRUE,
             items |-> [created EXCEPT ![k] =
                           [refilled EXCEPT !.tokens = @ - L.refill_time]]]
       ELSE [allowed |-> FALSE,
             items |-> [created EXCEPT ![k] = refilled]]

\* get_token_info(key): what it leaves in self.buckets
GetTokenInfoOf(L, items, k, now) ==
    IF items[k] = NoBucket THEN items
    ELSE [items EXCEPT ![k] = RefillOf(L, items[k], now)]

\* retry_after = int(bucket.refill_time / bucket.refill_rate)
RetryAfterOf(L) == IntTrunc(L.refill_time, L.refill_rate)

\* faulty variant: the handler is invoked whatever allow_request returned
HandlerRunsAlways(allowed) == 1

\* if bucket.allow_request(user_key): return func(*args, **kwargs)
HandlerRuns(allowed) == IF allowed THEN 1 ELSE 0

\* wrapper(*args, **kwargs): ValueError when no request object is among the
\* arguments, the handler's answer when allow_request returns True, else
\* get_token_info and HTTPException(status_code=429)
WrapperOf(L, items, k, has_request, now) ==
    IF ~has_request
    THEN [items |-> items,
          resp |-> [NoResponse EXCEPT !.status = "ValueError"]]
    ELSE LET r == AllowRequestOf(L, items, k, now)
         IN IF r.allowed
            THEN [items |-> r.items,
                  resp |-> [key |-> k, has_request |-> TRUE,
                            allowed |-> "True", status |-> "200",
                            handler_runs |-> HandlerRuns(r.allowed),
                            retry_after |-> -1, remaining |-> -1]]
            ELSE [items |-> GetTokenInfoOf(L, r.items, k, now),
                  resp |-> [key |-> k, has_request |-> TRUE,
                            allowed |-> "False", status |-> "429",
                            handler_runs |-> HandlerRuns(r.allowed),
                            retry_after |-> RetryAfterOf(L), remaining |-> 0]]

\* the contents of the self.buckets of endpoint e's limiter
Contents(e) == dicts[lims[e].dict].items

\* a request reaches endpoint e
Call(e) ==
    /\ lims[e].state = "built"
    /\ ncalls < MaxCalls
    /\ \E k \in Keys, has_request \in BOOLEAN :
        LET w == WrapperOf(lims[e], Contents(e), k, has_request, clock)
        IN /\ dicts' = [dicts EXCEPT ![lims[e].dict].items = w.items]
           /\ resp' = [resp EXCEPT ![e] = w.resp]
    /\ ncalls' = ncalls + 1
    /\ acted' = {e}
    /\ UNCHANGED <<Unused, clock, lims>>

\* the numeric form with every value positive
ValidNumeric ==
    [limit : {IntLimit(n) : n \in 1..MaxCapacity},
     refill_rate : {Opt(v) : v \in 1..MaxRate},
     refill_time : {Opt(v) : v \in 1..MaxPeriod}]

\* the string form "n/w" with n positive
ValidShorthand(w) ==
    {[limit |-> StrLimit(Shorthand(n, w)),
      refill_rate |-> None, refill_time |-> None] : n \in 1..MaxCapacity}

\* the rest of the state when an application starts serving
Serving ==
    /\ capacity = 1 /\ refill_rate = 1 /\ refill_time = 1
    /\ watch = "A"
    /\ buckets = [k \in Keys |-> NoBucket]
    /\ th = [t \in Threads |-> IdleThread]
    /\ hist = NoHistory
    /\ clock = 0
    /\ ncalls = 0
    /\ resp = [e \in Endpoints |-> NoResponse]
    /\ acted = {}

\* the limiters and dicts after rate_limit(a1) for e1 and rate_limit(a2)
\* for e2
Decorated(a1, a2) ==
    /\ lims = [e \in Endpoints |->
                  IF e = "e1" THEN RateLimit(e, a1) ELSE RateLimit(e, a2)]
    /\ dicts = Allocated(Allocated([e \in Endpoints |-> NoDict],
                                   RateLimit("e1", a1)),
                         RateLimit("e2", a2))

\* an application like main.py: one endpoint limited in the numeric form,
\* one in the string form
ServeInit ==
    /\ Serving
    /\ \E a1 \in ValidNumeric, a2 \in ValidShorthand(Second) : Decorated(a1, a2)

ServeNext ==
    \/ Tick
    \/ \E e \in Endpoints : Call(e)

\* requests served one at a time
ServeSpec == ServeInit /\ [][ServeNext]_vars

\* the length in seconds of a named period
SecondsIn(w) ==
    CASE w = Second -> 1
      [] w = Minute -> 60
      [] w = Hour -> 60 * 60
      [] w = Day -> 24 * 60 * 60

\* the numeric form (capacity, refill_rate, refill_time)
Numeric(c, r, t) ==
    [limit |-> IntLimit(c), refill_rate |-> Opt(r), refill_time |-> Opt(t)]

\* one endpoint limited by "n/w", the other by the numeric form with
\* capacity n, n tokens per period, and the period's length in seconds
PairInit ==
    /\ Serving
    /\ \E n \in 1..MaxCapacity, w \in PeriodNames :
        \E a1 \in {a \in ValidShorthand(w) : a.limit.str = Shorthand(n, w)} :
            Decorated(a1, Numeric(n, n, SecondsIn(w)))

\* the same request (same key, same arguments) reaches both endpoints at the
\* same time
CallBoth ==
    /\ \A e \in Endpoints : lims[e].state = "built"
    /\ ncalls < MaxCalls
    /\ \E k \in Keys, has_request \in BOOLEAN :
        LET w1 == WrapperOf(lims["e1"], Contents("e1"), k, has_request, clock)
            w2 == WrapperOf(lims["e2"], Contents("e2"), k, has_request, clock)
        IN /\ dicts' = [dicts EXCEPT ![lims["e1"].dict].items = w1.items,
                                     ![lims["e2"].dict].items = w2.items]
           /\ resp' = [resp EXCEPT !["e1"] = w1.resp, !["e2"] = w2.resp]
    /\ ncalls' = ncalls + 1
    /\ acted' = Endpoints
    /\ UNCHANGED <<Unused, clock, lims>>

\* time passes: the time one token takes to accrue at e2, or a whole period
Sleep ==
    /\ \E d \in {lims["e2"].refill_time \div lims["e2"].refill_rate,
                 lims["e2"].refill_time} :
        /\ d > 0
        /\ clock + d <= MaxTime * lims["e2"].refill_time
        /\ clock' = clock + d
    /\ UNCHANGED <<Policy, buckets, th, ncalls, hist>>

PairNext == CallBoth \/ Sleep

\* two endpoints given the same sequence of requests
PairSpec == PairInit /\ [][PairNext]_vars

\* ---------------------------------------------------------------- claims
\* thread t is in a request for the watched key, whose calls never overlapped
Watched(t) ==
    th[t].op = "request" /\ th[t].key = watch /\ ~hist.overlap

\* allow_request has just returned False to t (before get_token_info runs)
Denied(t) == th[t].pc = "w138"

\* allow_request has just returned True to t (the handler's answer is ready)
Admitted(t) == th[t].pc = "done" /\ th[t].status = 200

\* the wrapper has built t's 429 response
Rejected(t) == th[t].pc = "done" /\ th[t].status = 429

\* t's last clock reading is so soon after the key's creation that less than
\* one token can have accrued since: (now - created) / refill_time *
\* refill_rate < 1
BeforeOneToken(t) ==
    /\ hist.created >= 0
    /\ th[t].r_now >= 0
    /\ (th[t].r_now - hist.created) * refill_rate < refill_time

\* C1: every stored token count is within 0 .. capacity, whatever the
\* interleaving of allow_request and get_token_info calls (the clock never
\* moves backward).
C1_TokensInRange ==
    \A k \in Keys :
        HasKey(buckets, k) =>
            /\ 0 <= buckets[k].tokens
            /\ buckets[k].tokens <= capacity * refill_time

\* two calls for one key overlapped, time has passed, a call has been answered
\* and the key's bucket is partly drained
C1_Witness ==
    /\ hist.overlap
    /\ clock > 0
    /\ HasKey(buckets, watch)
    /\ buckets[watch].tokens < capacity * refill_time
    /\ \E t \in Threads : th[t].pc = "done" /\ th[t].key = watch

\* the admissions part of C2: while less than one token can have accrued since
\* the key was first seen, a request is denied only when capacity requests
\* were admitted before it, and never more than capacity are admitted: request
\* n is admitted exactly when n <= capacity
BurstAdmissions ==
    \A t \in Threads :
        (Watched(t) /\ BeforeOneToken(t)) =>
            /\ Denied(t) => hist.nadm = capacity
            /\ Admitted(t) => hist.nadm <= capacity
            /\ Rejected(t) => th[t].remaining = 0

C3_RefillOverTime ==
    \A t \in Threads :
        (Watched(t) /\ hist.lastRej >= 0 /\ Denied(t)) =>
            (th[t].r_now - hist.lastRej) * refill_rate < refill_time

\* a request admitted after the wait that follows a rejection
C3_Witness ==
    \E t \in Threads :
        /\ Watched(t) /\ hist.lastRej >= 0 /\ Admitted(t)
        /\ (th[t].r_now - hist.lastRej) * refill_rate >= refill_time
        /\ buckets[watch].last_time > hist.lastRej

\* the key of the call that thread t's step belongs to
StepKey(t) == IF th[t].pc = "idle" THEN th'[t].key ELSE th[t].key

\* C4: a step of a call for one key leaves the stored entry of every other
\* key unchanged.
C4_IndependentKeys ==
    [][\A t \in Threads :
          th'[t] # th[t] =>
              \A k \in Keys : k # StepKey(t) => buckets'[k] = buckets[k]]_vars

\* the watched key is exhausted and a request for another key is admitted
C4_Witness ==
    \E t \in Threads :
        /\ Admitted(t)
        /\ th[t].key # watch
        /\ HasKey(buckets, watch)
        /\ buckets[watch].tokens < refill_time
        /\ hist.nadm = capacity

\* C5: concurrent requests for one key, all arriving before any time has
\* passed since its (single) creation, admit no more than capacity of them.
C5_ExactlyCapacityAdmitted ==
    (hist.creations = 1 /\ hist.created = clock) => hist.nadm <= capacity

\* C6: a key's bucket is initialised to full exactly once.
C6_CreatedOnce == hist.creations <= 1

\* C7: when allow_request returns, the key's lastRefill is the time read in
\* that call's refill; on rejection the stored entry is exactly what the
\* refill produced, and on admission exactly one token less.
C7_RefillBookkeeping ==
    \A t \in Threads :
        (th[t].op = "request" /\ ~hist.overlap) =>
            /\ Denied(t) =>
                 buckets[th[t].key] =
                     [tokens |-> th[t].r_tokens, last_time |-> th[t].r_now]
            /\ Admitted(t) =>
                 buckets[th[t].key] =
                     [tokens |-> th[t].r_tokens - refill_time,
                      last_time |-> th[t].r_now]

\* a rejected call whose refill added a fraction of a token at a later time
C7_Witness ==
    \E t \in Threads :
        /\ Watched(t) /\ Denied(t)
        /\ th[t].r_now > hist.atime
        /\ buckets[watch].tokens > 0
        /\ buckets[watch].last_time = th[t].r_now

\* thread t has just refilled the watched key without consuming a token
\* (a rejected allow_request, or get_token_info)
Refreshed(t) ==
    /\ th[t].key = watch
    /\ ~hist.overlap
    /\ th[t].pc \in {"w138", "g40"} \/ Rejected(t)
           \/ (th[t].pc = "done" /\ th[t].op = "info" /\ th[t].r_now >= 0)

\* C8: after any number of rejected requests and get_token_info calls, the
\* token count is what one refill over the whole interval since the last
\* creation or consumption gives.
C8_RefillIndependentOfDenials ==
    \A t \in Threads :
        Refreshed(t) =>
            LET whole == hist.atok + (th[t].r_now - hist.atime) * refill_rate
                cap == capacity * refill_time
            IN /\ buckets[watch].tokens = IF whole < cap THEN whole ELSE cap
               /\ th[t].pc = "done" => th[t].info_tokens = buckets[watch].tokens

\* a refill at time 2 after a request rejected at time 1, the last token
\* having been consumed at time 0, with the bucket no longer empty
C8_Witness ==
    \E t \in Threads :
        /\ Refreshed(t)
        /\ hist.atime = 0 /\ hist.lastRej = 1 /\ th[t].r_now = 2
        /\ hist.atok < refill_time
        /\ buckets[watch].tokens > 0

\* C9: on every rejection the retry value is ceil(refillPeriod / refillRate).
C9_RetryIsCeil ==
    \A t \in Threads :
        Rejected(t) => th[t].retry_after = Ceil(refill_time, refill_rate)

\* C10: a request that reads the clock at least Retry-After seconds after the
\* key's last request was rejected is admitted.
C10_RetryAdmitted ==
    \A t \in Threads :
        (Watched(t) /\ hist.lastRej >= 0 /\ Denied(t)) =>
            th[t].r_now - hist.lastRej < hist.lastRetry

\* rate_limit was called for endpoint e and raised before making a limiter
Refused(e) ==
    /\ lims[e].state = "error"
    /\ lims[e].dict = "none"
    /\ ~dicts[e].made

\* C12: a string limit together with refill_rate or refill_time, and a numeric
\* limit without both refill_rate and refill_time, raise a configuration
\* error, and no limiter is created.
C12_FormsExclusive ==
    \A e \in Endpoints :
        lims[e].state # "none" =>
            LET a == lims[e].args
            IN /\ (a.limit.kind = "str"
                      /\ (a.refill_rate.some \/ a.refill_time.some))
                    => Refused(e)
               /\ (a.limit.kind = "int"
                      /\ ~(a.refill_rate.some /\ a.refill_time.some))
                    => Refused(e)

\* "1/second" with refill_rate=0 was refused, and so was 1 with a refill_rate
\* and no refill_time
C12_Witness ==
    /\ lims["e1"].args = [limit |-> StrLimit(Shorthand(1, Second)),
                          refill_rate |-> Opt(0), refill_time |-> None]
    /\ Refused("e1")
    /\ lims["e2"].args = [limit |-> IntLimit(1),
                          refill_rate |-> Opt(1), refill_time |-> None]
    /\ Refused("e2")

\* C13: every constructed limiter has capacity > 0, refillRate > 0 and
\* refillPeriod > 0; a shorthand without '/' or with an unknown period is
\* refused at construction.
C13_PolicyPositive ==
    \A e \in Endpoints :
        /\ lims[e].state = "built" =>
               /\ lims[e].capacity > 0
               /\ lims[e].refill_rate > 0
               /\ lims[e].refill_time > 0
        /\ (lims[e].state # "none" /\ lims[e].args.limit.kind = "str"
               /\ (~HasSlash(lims[e].args.limit.str)
                      \/ \E n \in 0..MaxCapacity :
                             lims[e].args.limit.str = Shorthand(n, Week)))
             => Refused(e)

\* C16: a request against one endpoint's limiter leaves the buckets and the
\* last decision of every other endpoint's limiter unchanged, also when both
\* have seen the same key.
C16_InstancesIsolated ==
    [][\A e \in Endpoints :
          (ncalls' # ncalls /\ e \notin acted') =>
              /\ dicts'[lims'[e].dict].items = dicts[lims[e].dict].items
              /\ resp'[e] = resp[e]]_vars

\* key A is exhausted at e1, whose last request for A was rejected, and a
\* later request for A at e2 is admitted
C16_Witness ==
    /\ resp["e1"].key = "A" /\ resp["e1"].status = "429"
    /\ acted = {"e2"}
    /\ resp["e2"].key = "A" /\ resp["e2"].status = "200"
    /\ Contents("e1")["A"].tokens < lims["e1"].refill_time
    /\ Contents("e2")["A"] # NoBucket

\* C17: the wrapped handler is invoked exactly once when the request is
\* admitted, and not at all when it is rejected (429) or when no request
\* object is found (error).
C17_HandlerIffAdmitted ==
    \A e \in Endpoints :
        resp[e].status # "none" =>
            /\ resp[e].allowed = "True" =>
                   resp[e].status = "200" /\ resp[e].handler_runs = 1
            /\ resp[e].allowed = "False" =>
                   resp[e].status = "429" /\ resp[e].handler_runs = 0
            /\ ~resp[e].has_request =>
                   /\ resp[e].status = "ValueError"
                   /\ resp[e].allowed = "none"
                   /\ resp[e].handler_runs = 0
            /\ resp[e].has_request => resp[e].allowed \in {"True", "False"}

\* e1 has rejected a request after admitting one, e2 has found no request
\* object
C17_Witness ==
    /\ resp["e1"].status = "429" /\ resp["e1"].handler_runs = 0
    /\ Contents("e1")[resp["e1"].key].tokens < lims["e1"].capacity * lims["e1"].refill_time
    /\ resp["e2"].status = "ValueError"
    /\ ncalls = 3

\* C11: a limiter built from "N/period" and one built from the numeric form
\* (N, N, seconds in period) answer every sequence of (key, time) requests
\* alike: the same admissions and rejections, the same retry values.
C11_FormsEquivalent ==
    /\ resp["e1"].status = resp["e2"].status
    /\ resp["e1"].allowed = resp["e2"].allowed
    /\ resp["e1"].retry_after = resp["e2"].retry_after
    /\ resp["e1"].handler_runs = resp["e2"].handler_runs

\* "2/minute" and (2, 2, 60): both have admitted two requests for a key at
\* time 0 and a third 30 seconds later, which took the token accrued since
C11_Witness ==
    /\ lims["e1"].args.limit = StrLimit(Shorthand(2, Minute))
    /\ lims["e2"].args = Numeric(2, 2, 60)
    /\ clock = 30
    /\ resp["e1"].status = "200" /\ resp["e2"].status = "200"
    /\ Contents("e1")[resp["e1"].key] = [tokens |-> 0, last_time |-> 30]
    /\ Contents("e2") = Contents("e1")

\* C14: a refill that reads a time earlier than the stored lastRefill adds
\* zero tokens: it leaves the token count as it was, and never below 0.
C14_BackwardClockGuarded ==
    \A t \in Threads :
        (th[t].pc = "r20" /\ th[t].r_now < th[t].r_last) =>
            /\ th[t].r_tokens = buckets[th[t].key].tokens
            /\ th[t].r_tokens >= 0

\* the bucket lifetime a key may stay untouched before it is to be removed
IdleTTL == refill_time

\* C15: a bucket left untouched for longer than the TTL is eventually removed.
C15_IdleEvicted ==
    \A k \in Keys :
        (HasKey(buckets, k) /\ ~Busy(k)
            /\ clock - buckets[k].last_time > IdleTTL)
          ~> ~HasKey(buckets, k)

\* C18: requests for one key arriving one at a time on a non-decreasing
\* clock: the number admitted from any instant t0 up to any later admission
\* at t1 is at most capacity + (t1 - t0) * refillRate / refillPeriod.
C18_RateBound ==
    \A t \in Threads :
        (Admitted(t) /\ th[t].key = watch /\ hist.mtime >= 0) =>
            hist.madm * refill_time <=
                capacity * refill_time + (th[t].r_now - hist.mtime) * refill_rate

\* capacity 1 refilled by one token per second: three requests admitted
\* from time 0 to time 2, as many as the bound allows
C18_Witness ==
    \E t \in Threads :
        /\ Admitted(t) /\ th[t].key = watch
        /\ capacity = 1 /\ refill_rate = refill_time
        /\ hist.mtime = 0 /\ th[t].r_now = 2
        /\ hist.madm = 3

\* C19: on a non-decreasing clock no step of any interleaving of
\* allow_request and get_token_info calls moves a key's stored lastRefill
\* backward.
C19_LastRefillMonotone ==
    [][\A k \in Keys :
          (HasKey(buckets, k) /\ HasKey(buckets', k)) =>
              buckets'[k].last_time >= buckets[k].last_time]_vars

====
